---- MODULE Spec2Model ----
(***************************************************************************)
(* fetch-maybe: a conditional downloader.  One invocation of main() reads  *)
(* the destination's metadata, decides whether the file is fresh enough,   *)
(* creates a staging file next to the destination, sends a conditional     *)
(* GET, streams the body into the staging file and renames it over the     *)
(* destination.                                                            *)
(*                                                                         *)
(* Strings are sequences of one-token strings; optional values are sets    *)
(* with at most one element (None is {}, Some(x) is {x}).  Times are       *)
(* counted in ticks, TicksPerSec ticks to the second, so that the          *)
(* whole-second HTTP date format loses the sub-second part.                *)
(***************************************************************************)
EXTENDS Integers, Sequences, FiniteSets, TLC

\* ------------------------------------------------------------------ bounds
MaxClock    == 2   \* the wall clock runs from 0 to MaxClock ticks
TicksPerSec == 2   \* sub-second resolution of file times and of now
BodyLen     == 3   \* chunks in a response body
I64Lim      == 50  \* scaled: str::parse::<i64> accepts -I64Lim-1 .. I64Lim
DurationLim == 20  \* scaled: Duration::seconds accepts -DurationLim .. DurationLim
DateTimeLim == 4   \* scaled: DateTime<Utc> holds -DateTimeLim .. DateTimeLim seconds
MaxText     == 2   \* characters of a --min-age text given to parse_duration alone
MaxPath     == 3   \* components of an output path given to dir_of alone

Procs == {1, 2}    \* invocations of the program
Names == {"tmpA", "tmpB"}  \* names a staging file can get

None == {}
Some(x) == {x}
Get(o) == CHOOSE x \in o : TRUE

\* ------------------------------------------------------------------ text
Digits == <<"0", "1", "2", "3", "4", "5", "6", "7", "8", "9">>
IsDigit(c) == \E i \in 1..10 : Digits[i] = c
DigitValue(c) == (CHOOSE i \in 1..10 : Digits[i] = c) - 1

RECURSIVE DecimalValue(_)
DecimalValue(s) ==
    IF s = <<>> THEN 0
    ELSE 10 * DecimalValue(SubSeq(s, 1, Len(s) - 1)) + DigitValue(s[Len(s)])

\* str::parse::<i64>: an optional sign, at least one digit, nothing else, and
\* the value within the integer type.
parse_i64(s) ==
    LET signed == Len(s) > 0 /\ s[1] \in {"-", "+"}
        digits == IF signed THEN Tail(s) ELSE s
        v == IF signed /\ s[1] = "-" THEN 0 - DecimalValue(digits)
             ELSE DecimalValue(digits)
    IN  IF digits = <<>> \/ \E i \in 1..Len(digits) : ~IsDigit(digits[i])
        THEN None
        ELSE IF v < 0 - I64Lim - 1 \/ v > I64Lim THEN None ELSE Some(v)

\* period.rs parse_duration: [kind |-> "Ok", secs], "Err" (bail!) or "Panic"
\* (Duration::seconds out of bounds).
parse_duration(s) ==
    LET secs == parse_i64(s)
    IN  IF secs = None THEN [kind |-> "Err", secs |-> 0]
        ELSE IF Get(secs) < 0 - DurationLim \/ Get(secs) > DurationLim
             THEN [kind |-> "Panic", secs |-> 0]
             ELSE [kind |-> "Ok", secs |-> Get(secs)]

\* DateTime::to_rfc2822: the date to the whole second.
to_rfc2822(t) == <<Digits[(t \div TicksPerSec) + 1]>>

\* DateTime::parse_from_rfc2822(..).ok(): the time a well-formed date names.
parse_from_rfc2822(s) ==
    IF Len(s) = 1 /\ IsDigit(s[1]) THEN Some(DigitValue(s[1]) * TicksPerSec)
    ELSE None

\* str::find(':'): the index of the first colon, 0 for none.
find_colon(header) ==
    IF \E i \in 1..Len(header) : header[i] = ":"
    THEN CHOOSE i \in 1..Len(header) :
            header[i] = ":" /\ \A j \in 1..(i - 1) : header[j] # ":"
    ELSE 0

\* main.rs 130-137: the (key, value) of a header that has a colon.
split_header(header) ==
    LET colon == find_colon(header)
        key == SubSeq(header, 1, colon - 1)
        value == SubSeq(header, colon + 1, Len(header))
    IN  <<key, IF value # <<>> /\ value[1] = " " THEN Tail(value) ELSE value>>

\* ureq Request::set: the header replaces one of the same name.
SelectOther(hs, key) == SelectSeq(hs, LAMBDA h : h[1] # key)
set_header(hs, key, value) == Append(SelectOther(hs, key), <<key, value>>)

\* apply_headers as it would be if a header without a colon were passed over.
RECURSIVE apply_headers_lenient(_, _)
apply_headers_lenient(hs, headers) ==
    IF headers = <<>> THEN [bad |-> FALSE, hs |-> hs]
    ELSE IF find_colon(Head(headers)) = 0
    THEN apply_headers_lenient(hs, Tail(headers))
    ELSE LET kv == split_header(Head(headers))
         IN  apply_headers_lenient(set_header(hs, kv[1], kv[2]), Tail(headers))

\* main.rs 121-142: the request after every caller header ("bad" when one
\* has no colon: the ? operator leaves main at the first such header).
RECURSIVE apply_headers(_, _)
apply_headers(hs, headers) ==
    IF headers = <<>> THEN [bad |-> FALSE, hs |-> hs]
    ELSE IF find_colon(Head(headers)) = 0 THEN [bad |-> TRUE, hs |-> hs]
    ELSE LET kv == split_header(Head(headers))
         IN  apply_headers(set_header(hs, kv[1], kv[2]), Tail(headers))

ImsKey == <<"If-Modified-Since">>

\* The If-Modified-Since time a request carries, if it carries a well-formed one.
ims_of(hs) ==
    LET sel == SelectSeq(hs, LAMBDA h : h[1] = ImsKey)
    IN  IF sel = <<>> THEN None ELSE parse_from_rfc2822(sel[1][2])

has_ims(hs) == \E i \in 1..Len(hs) : hs[i][1] = ImsKey

\* ------------------------------------------------------------------ paths
\* A path is its sequence of components, the root directory being "/".
\* is_absolute as it would be if no path counted as absolute.
is_absolute_never(path) == FALSE

is_absolute(path) == path # <<>> /\ path[1] = "/"

\* parent as it would be if the path's last component were kept.
parent_whole(path) ==
    IF path = <<>> \/ path = <<"/">> THEN None ELSE Some(path)

\* Path::parent
parent(path) ==
    IF path = <<>> \/ path = <<"/">> THEN None
    ELSE Some(SubSeq(path, 1, Len(path) - 1))

\* PathBuf::push
push(base, path) == IF is_absolute(path) THEN path ELSE base \o path

\* dir_of.rs dir_of: cwd is the optional result of current_dir().
\* [kind |-> "Ok", dir, asked] or "Err"; asked tells whether current_dir ran.
dir_of(path, cwd) ==
    IF parent(path) = None
    THEN [kind |-> "Ok", dir |-> <<"/">>, asked |-> FALSE]
    ELSE IF is_absolute(Get(parent(path)))
    THEN [kind |-> "Ok", dir |-> Get(parent(path)), asked |-> FALSE]
    ELSE IF cwd = None
    THEN [kind |-> "Err", dir |-> <<>>, asked |-> TRUE]
    ELSE [kind |-> "Ok", dir |-> push(Get(cwd), Get(parent(path))), asked |-> TRUE]

\* ------------------------------------------------------------------ state
VARIABLES
    clock,          \* the wall clock, in ticks
    dest,           \* the file at the output path: None or Some([content, mtime])
    staging,        \* the staging files of the output's directory, by name
    output,         \* the output path given on the command line
    modified_ok,    \* whether the platform can tell a file's modification time
    resource_mtime, \* server: when the resource last changed, in ticks
    last_modified,  \* server: the Last-Modified header it sends, if any
    answers,        \* server: the status codes it answers with
    serial,         \* whether the invocations are run one after the other
    renames,        \* the invocations that renamed onto dest, in order
    pc,             \* where each invocation stands
    min_age_arg,    \* --min-age as given, if given
    headers_arg,    \* the --header values as given
    min_age,        \* the parsed --min-age, in seconds
    before,         \* dest when the invocation started
    now,            \* the current time the invocation captured
    mtime_before,   \* ReferenceTime
    temp,           \* the name of the invocation's staging file, if it has one
    buf,            \* the BufWriter's unwritten chunks
    copied,         \* chunks of the body read so far
    req,            \* the request's headers, a sequence of <<key, value>>
    status,         \* the response's status code, if a response came
    server_date,    \* the parsed Last-Modified of the response
    times_set,      \* how setting the staging file's time went: "no", "ok", "failed"
    dir,            \* what dir_of made of output, and what current_dir() said
    ret,            \* how main ended: "Ok", "Err" or "Panic"
    step            \* the step at which main ended

vars == <<clock, dest, staging, output, modified_ok, resource_mtime,
          last_modified, answers, serial, renames, pc, min_age_arg, headers_arg, min_age,
          before, now, mtime_before, temp, buf, copied, req, status,
          server_date, times_set, dir, ret, step>>

env_vars == <<output, modified_ok, resource_mtime, last_modified, answers,
              serial>>

\* What the server sends invocation p as the body, chunk by chunk.
Body(p) == [i \in 1..BodyLen |-> <<p, i>>]
OldContent == <<<<0, 1>>>>
BufCap == 2  \* chunks the BufWriter holds

File(c, m) == [content |-> c, mtime |-> m]

MinAgeArgs == {None, Some(<<"0">>), Some(<<"1">>), Some(<<"-", "1">>),
               Some(<<"9">>), Some(<<"-", "9">>), Some(<<"3", "0">>),
               Some(<<"x">>)}
HeaderArgs == {<<>>, <<<<"Foo", ":", " ", "bar">>>>,
               <<<<"If-Modified-Since", ":", " ", "1">>>>,
               <<<<"Foo", ":", "bar">>, <<"Foobar">>>>}
Outputs == {<<"/", "foo", "bar">>, <<"bar">>}
Cwd == <<"/", "home", "quux">>
StatusCodes == {199, 200, 299, 300, 303, 304, 305, 399, 400, 599, 600}

\* The servers: when the resource last changed, the Last-Modified header
\* sent (none, a malformed one, or that time as a date) and the status codes
\* answered with.
ServersWith(codes) ==
    {[mtime |-> s * TicksPerSec, header |-> h, codes |-> codes] :
        s \in 0..(MaxClock \div TicksPerSec), h \in {None, Some(<<"x">>)}}
    \cup {[mtime |-> s * TicksPerSec, header |-> Some(to_rfc2822(s * TicksPerSec)),
           codes |-> codes] : s \in 0..(MaxClock \div TicksPerSec)}

\* The state before any invocation has run: the invocations of run are about
\* to start, each with a command line drawn from ages and headers; the
\* others never run.
InitWith(run, ages, headers, mtimes, outputs, platforms, servers, inturn) ==
    /\ clock = 0
    /\ serial = inturn
    /\ dest \in {None} \cup {Some(File(OldContent, m)) : m \in mtimes}
    /\ staging = [n \in Names |-> None]
    /\ output \in outputs
    /\ modified_ok \in platforms
    /\ \E s \in servers :
        /\ resource_mtime = s.mtime
        /\ last_modified = s.header
        /\ answers = s.codes
    /\ renames = <<>>
    /\ pc = [p \in Procs |-> IF p \in run THEN "start" ELSE "off"]
    /\ min_age_arg \in [Procs -> ages]
    /\ headers_arg \in [Procs -> headers]
    /\ \A p \in Procs \ run : min_age_arg[p] = None /\ headers_arg[p] = <<>>
    /\ min_age = [p \in Procs |-> None]
    /\ before = [p \in Procs |-> None]
    /\ now = [p \in Procs |-> 0]
    /\ mtime_before = [p \in Procs |-> None]
    /\ temp = [p \in Procs |-> None]
    /\ buf = [p \in Procs |-> <<>>]
    /\ copied = [p \in Procs |-> 0]
    /\ req = [p \in Procs |-> <<>>]
    /\ status = [p \in Procs |-> None]
    /\ server_date = [p \in Procs |-> None]
    /\ times_set = [p \in Procs |-> "no"]
    /\ dir = [p \in Procs |-> None]
    /\ ret = [p \in Procs |-> "Running"]
    /\ step = [p \in Procs |-> "none"]

\* One invocation, with every command line and every state of the output.
\* (The resource's time shows to one invocation through a well-formed
\* Last-Modified only, so it varies with that header alone.)
Init ==
    InitWith({1}, MinAgeArgs, HeaderArgs, 0..(MaxClock + 1), Outputs, BOOLEAN,
             {s \in ServersWith(StatusCodes) :
                s.mtime = 0 \/ s.header \notin {None, Some(<<"x">>)}}, TRUE)

\* ------------------------------------------------------------------ steps
\* Drop as it would be if the staging file were kept on disk when dropped.
Drop_leak(p) == staging

\* main.rs 102-112: temp goes out of scope when main returns or panics; the
\* staging file, if the invocation still owns one, is removed from its
\* directory (PersistableTempFile removes its file unless it was persisted).
Drop(p) == [n \in Names |-> IF n \in temp[p] THEN None ELSE staging[n]]

\* main returns (or panics) at step s with r, dropping its locals.
Return(p, r, s) ==
    /\ pc' = [pc EXCEPT ![p] = "done"]
    /\ ret' = [ret EXCEPT ![p] = r]
    /\ step' = [step EXCEPT ![p] = s]
    /\ staging' = Drop(p)
    /\ temp' = [temp EXCEPT ![p] = None]
    /\ buf' = [buf EXCEPT ![p] = <<>>]

\* main goes on to the step l.
Goto(p, l) ==
    /\ pc' = [pc EXCEPT ![p] = l]
    /\ UNCHANGED <<ret, step>>

\* main.rs 80: the wall clock, which Utc::now() reads, moves on.
Tick ==
    /\ clock < MaxClock
    /\ clock' = clock + 1
    /\ UNCHANGED <<dest, staging, env_vars, renames, pc, min_age_arg,
                   headers_arg, min_age, before, now, mtime_before, temp, buf,
                   copied, req, status, server_date, times_set, dir, ret,
                   step>>

\* Invocations run one after the other: an invocation starts when every
\* earlier one has ended.
InTurn(p) == serial => \A q \in Procs : q < p => pc[q] \in {"off", "done"}

\* main.rs 22-69: the command line is read and --min-age parsed.
Start(p) ==
    /\ pc[p] = "start"
    /\ InTurn(p)
    /\ before' = [before EXCEPT ![p] = dest]
    /\ IF min_age_arg[p] = None
       THEN /\ min_age' = min_age
            /\ Goto(p, "metadata")
            /\ UNCHANGED <<staging, temp, buf>>
       ELSE LET d == parse_duration(Get(min_age_arg[p]))
            IN  IF d.kind = "Ok"
                THEN /\ min_age' = [min_age EXCEPT ![p] = Some(d.secs)]
                     /\ Goto(p, "metadata")
                     /\ UNCHANGED <<staging, temp, buf>>
                ELSE /\ min_age' = min_age
                     /\ Return(p, d.kind, "min-age")
    /\ UNCHANGED <<clock, dest, env_vars, renames, min_age_arg, headers_arg,
                   now, mtime_before, copied, req, status, server_date,
                   times_set, dir>>

\* main.rs 82-88: ReferenceTime from the metadata and the captured time.
reference_time(metadata, t) ==
    IF metadata = None \/ ~modified_ok THEN None
    ELSE IF Get(metadata).mtime < t THEN Some(Get(metadata).mtime) ELSE None

\* main.rs 71-90: the output's metadata is read and the time captured.
ReadMetadata(p) ==
    /\ pc[p] = "metadata"
    /\ \/ /\ now' = [now EXCEPT ![p] = clock]
          /\ mtime_before' = [mtime_before EXCEPT ![p] = reference_time(dest, clock)]
          /\ Goto(p, "fresh")
          /\ UNCHANGED <<staging, temp, buf>>
       \/ /\ Return(p, "Err", "metadata")
          /\ UNCHANGED <<now, mtime_before>>
    /\ UNCHANGED <<clock, dest, env_vars, renames, min_age_arg, headers_arg,
                   min_age, before, copied, req, status, server_date,
                   times_set, dir>>

\* main.rs 92-99: "Skip", "Proceed", or "Panic" when now - min_age is no
\* DateTime (chrono panics on the overflow).
freshness(mtime, age, t) ==
    IF mtime = None \/ age = None THEN "Proceed"
    ELSE LET limit == t - Get(age) * TicksPerSec
         IN  IF limit < 0 - DateTimeLim * TicksPerSec
                \/ limit > DateTimeLim * TicksPerSec
             THEN "Panic"
             ELSE IF Get(mtime) > limit THEN "Skip" ELSE "Proceed"

FreshnessCheck(p) ==
    /\ pc[p] = "fresh"
    /\ LET d == freshness(mtime_before[p], min_age[p], now[p])
       IN  IF d = "Proceed"
           THEN Goto(p, "stage") /\ UNCHANGED <<staging, temp, buf>>
           ELSE Return(p, IF d = "Skip" THEN "Ok" ELSE "Panic", "fresh")
    /\ UNCHANGED <<clock, dest, env_vars, renames, min_age_arg, headers_arg,
                   min_age, before, now, mtime_before, copied, req, status,
                   server_date,
                   times_set, dir>>

\* FreeNames as it would be if the file were created under whatever name,
\* taken or not.
FreeNames_any == Names

\* tempfile: a new file under a name no file of the directory has.
FreeNames == {n \in Names : staging[n] = None}

\* main.rs 102-112: the staging file is created in the output's directory.
StageCreate(p) ==
    /\ pc[p] = "stage"
    /\ \E cwd \in {None, Some(Cwd)} :
        LET d == dir_of(output, cwd)
        IN  /\ dir' = [dir EXCEPT ![p] =
                    Some([result |-> d,
                          current_dir |-> IF d.asked THEN Some(cwd) ELSE None])]
            /\ \/ /\ d.kind = "Err"
                  /\ Return(p, "Err", "cwd")
               \/ /\ d.kind = "Ok"
                  /\ Return(p, "Err", "tempfile")
               \/ /\ d.kind = "Ok"
                  /\ \E n \in FreeNames :
                       /\ staging' = [staging EXCEPT ![n] = Some(File(<<>>, clock))]
                       /\ temp' = [temp EXCEPT ![p] = Some(n)]
                  /\ Goto(p, "request")
                  /\ UNCHANGED buf
    /\ UNCHANGED <<clock, dest, env_vars, renames, min_age_arg, headers_arg,
                   min_age, before, now, mtime_before, copied, req, status,
                   server_date,
                   times_set>>

\* conditional as it would be if the conditional header were never set.
conditional_never(mtime) == <<>>

\* main.rs 114-119: the request with its conditional header.
conditional(mtime) ==
    IF mtime = None THEN <<>>
    ELSE set_header(<<>>, ImsKey, to_rfc2822(Get(mtime)))

\* main.rs 114-142: the request is built from ReferenceTime and the headers.
BuildRequest(p) ==
    /\ pc[p] = "request"
    /\ LET r == apply_headers(conditional(mtime_before[p]), headers_arg[p])
       IN  IF r.bad
           THEN Return(p, "Err", "header") /\ req' = req
           ELSE /\ req' = [req EXCEPT ![p] = r.hs]
                /\ Goto(p, "call")
                /\ UNCHANGED <<staging, temp, buf>>
    /\ UNCHANGED <<clock, dest, env_vars, renames, min_age_arg, headers_arg,
                   min_age, before, now, mtime_before, copied, status,
                   server_date,
                   times_set, dir>>

\* classify as it would be with 200..299, a range without its end.
classify_exclusive(code) ==
    IF code >= 200 /\ code < 299 THEN "download"
    ELSE IF code = 304 THEN "not-modified"
    ELSE IF code >= 300 /\ code <= 399 THEN "redirection"
    ELSE IF code >= 400 /\ code <= 599 THEN "unhappy"
    ELSE "unexpected"

\* classify as it would be with the 300..=399 arm before the 304 arm.
classify_redirection_first(code) ==
    IF code >= 200 /\ code <= 299 THEN "download"
    ELSE IF code >= 300 /\ code <= 399 THEN "redirection"
    ELSE IF code = 304 THEN "not-modified"
    ELSE IF code >= 400 /\ code <= 599 THEN "unhappy"
    ELSE "unexpected"

\* main.rs 154-163: the arm of the match a status code takes.
classify(code) ==
    IF code >= 200 /\ code <= 299 THEN "download"
    ELSE IF code = 304 THEN "not-modified"
    ELSE IF code >= 300 /\ code <= 399 THEN "redirection"
    ELSE IF code >= 400 /\ code <= 599 THEN "unhappy"
    ELSE "unexpected"

\* main.rs 165-171
server_modified(header) ==
    IF header = None THEN None ELSE parse_from_rfc2822(Get(header))

\* main.rs 146-175: the request is sent and the response's status classified.
Call(p) ==
    /\ pc[p] = "call"
    /\ \/ /\ Return(p, "Err", "requesting")
          /\ UNCHANGED <<status, server_date>>
       \/ \E code \in answers :
            /\ status' = [status EXCEPT ![p] = Some(code)]
            /\ IF classify(code) = "download"
               THEN /\ server_date' =
                        [server_date EXCEPT ![p] = server_modified(last_modified)]
                    /\ Goto(p, "copy")
                    /\ UNCHANGED <<staging, temp, buf>>
               ELSE /\ Return(p, IF classify(code) = "not-modified" THEN "Ok" ELSE "Err",
                              classify(code))
                    /\ UNCHANGED server_date
    /\ UNCHANGED <<clock, dest, env_vars, renames, min_age_arg, headers_arg,
                   min_age, before, now, mtime_before, copied, req, times_set, dir>>

\* The staging file of p after the chunks cs are written to it at time t.
Written(p, cs, t) ==
    [staging EXCEPT ![Get(temp[p])] =
        Some(File(Get(staging[Get(temp[p])]).content \o cs, t))]

\* Copy as it would be if the copy could end before the end of the body.
Copy_short(p) ==
    /\ pc[p] = "copy"
    /\ \/ /\ Return(p, "Err", "downloading")
          /\ UNCHANGED copied
       \/ /\ copied[p] < BodyLen
          /\ copied' = [copied EXCEPT ![p] = copied[p] + 1]
          /\ IF Len(buf[p]) + 1 > BufCap
             THEN /\ staging' = Written(p, buf[p], clock)
                  /\ buf' = [buf EXCEPT ![p] = <<Body(p)[copied[p] + 1]>>]
             ELSE /\ staging' = staging
                  /\ buf' = [buf EXCEPT ![p] = Append(buf[p], Body(p)[copied[p] + 1])]
          /\ Goto(p, "copy")
          /\ UNCHANGED temp
       \/ /\ copied[p] <= BodyLen
          /\ Goto(p, "flush")
          /\ UNCHANGED <<staging, temp, buf, copied>>
    /\ UNCHANGED <<clock, dest, env_vars, renames, min_age_arg, headers_arg,
                   min_age, before, now, mtime_before, req, status, server_date,
                   times_set, dir>>

\* main.rs 177-180: io::copy reads one chunk and writes it to the BufWriter,
\* which writes its buffer out first when the chunk does not fit; at the end
\* of the body the copy is over.  A read or a write may fail.
Copy(p) ==
    /\ pc[p] = "copy"
    /\ \/ /\ Return(p, "Err", "downloading")
          /\ UNCHANGED copied
       \/ /\ copied[p] < BodyLen
          /\ copied' = [copied EXCEPT ![p] = copied[p] + 1]
          /\ IF Len(buf[p]) + 1 > BufCap
             THEN /\ staging' = Written(p, buf[p], clock)
                  /\ buf' = [buf EXCEPT ![p] = <<Body(p)[copied[p] + 1]>>]
             ELSE /\ staging' = staging
                  /\ buf' = [buf EXCEPT ![p] = Append(buf[p], Body(p)[copied[p] + 1])]
          /\ Goto(p, "copy")
          /\ UNCHANGED temp
       \/ /\ copied[p] = BodyLen
          /\ Goto(p, "flush")
          /\ UNCHANGED <<staging, temp, buf, copied>>
    /\ UNCHANGED <<clock, dest, env_vars, renames, min_age_arg, headers_arg,
                   min_age, before, now, mtime_before, req, status, server_date,
                   times_set, dir>>

\* Flush as it would be if the buffered chunks were never written out.
Flush_lost(p) ==
    /\ pc[p] = "flush"
    /\ \/ Return(p, "Err", "completing download")
       \/ /\ buf' = [buf EXCEPT ![p] = <<>>]
          /\ Goto(p, IF server_date[p] = None THEN "persist" ELSE "times")
          /\ UNCHANGED <<staging, temp>>
    /\ UNCHANGED <<clock, dest, env_vars, renames, min_age_arg, headers_arg,
                   min_age, before, now, mtime_before, copied, req, status,
                   server_date,
                   times_set, dir>>

\* main.rs 182-187: the BufWriter is flushed and taken apart.
Flush(p) ==
    /\ pc[p] = "flush"
    /\ \/ Return(p, "Err", "completing download")
       \/ /\ staging' = IF buf[p] = <<>> THEN staging ELSE Written(p, buf[p], clock)
          /\ buf' = [buf EXCEPT ![p] = <<>>]
          /\ Goto(p, IF server_date[p] = None THEN "persist" ELSE "times")
          /\ UNCHANGED temp
    /\ UNCHANGED <<clock, dest, env_vars, renames, min_age_arg, headers_arg,
                   min_age, before, now, mtime_before, copied, req, status,
                   server_date,
                   times_set, dir>>

\* SetTimes as it would be if a failure to set the time ended main.
SetTimes_fatal(p) ==
    /\ pc[p] = "times"
    /\ \/ /\ staging' = [staging EXCEPT ![Get(temp[p])] =
                Some(File(Get(staging[Get(temp[p])]).content, Get(server_date[p])))]
          /\ times_set' = [times_set EXCEPT ![p] = "ok"]
          /\ Goto(p, "persist")
          /\ UNCHANGED <<temp, buf>>
       \/ /\ times_set' = [times_set EXCEPT ![p] = "failed"]
          /\ Return(p, "Err", "setting time")
    /\ UNCHANGED <<clock, dest, env_vars, renames, min_age_arg, headers_arg,
                   min_age, before, now, mtime_before, copied, req,
                   status, server_date, dir>>

\* SetTimes as it would be with the two times swapped: the server's date
\* set as the access time, the modification time left alone.
SetTimes_access_time(p) ==
    /\ pc[p] = "times"
    /\ \/ /\ staging' = staging
          /\ times_set' = [times_set EXCEPT ![p] = "ok"]
       \/ /\ staging' = staging
          /\ times_set' = [times_set EXCEPT ![p] = "failed"]
    /\ Goto(p, "persist")
    /\ UNCHANGED <<clock, dest, env_vars, renames, min_age_arg, headers_arg,
                   min_age, before, now, mtime_before, temp, buf, copied, req,
                   status, server_date, dir>>

\* main.rs 189-198: the staging file gets the server's date; a failure is
\* only warned about.
SetTimes(p) ==
    /\ pc[p] = "times"
    /\ \/ /\ staging' = [staging EXCEPT ![Get(temp[p])] =
                Some(File(Get(staging[Get(temp[p])]).content, Get(server_date[p])))]
          /\ times_set' = [times_set EXCEPT ![p] = "ok"]
       \/ /\ staging' = staging
          /\ times_set' = [times_set EXCEPT ![p] = "failed"]
    /\ Goto(p, "persist")
    /\ UNCHANGED <<clock, dest, env_vars, renames, min_age_arg, headers_arg,
                   min_age, before, now, mtime_before, temp, buf, copied, req,
                   status, server_date, dir>>

\* Persist as it would be if the rename's error were ignored.
Persist_error_ignored(p) ==
    /\ pc[p] = "persist"
    /\ \/ /\ Return(p, "Ok", "ready")
          /\ UNCHANGED <<dest, renames>>
       \/ /\ dest' = staging[Get(temp[p])]
          /\ staging' = [staging EXCEPT ![Get(temp[p])] = None]
          /\ temp' = [temp EXCEPT ![p] = None]
          /\ renames' = Append(renames, p)
          /\ pc' = [pc EXCEPT ![p] = "done"]
          /\ ret' = [ret EXCEPT ![p] = "Ok"]
          /\ step' = [step EXCEPT ![p] = "ready"]
          /\ UNCHANGED buf
    /\ UNCHANGED <<clock, env_vars, min_age_arg, headers_arg, min_age, before,
                   now, mtime_before, copied, req, status, server_date,
                   times_set, dir>>

\* Persist as it would be if the output were removed before the rename, so
\* that a failed rename leaves no output.
Persist_unlink_first(p) ==
    /\ pc[p] = "persist"
    /\ \/ /\ Return(p, "Err", "replacing")
          /\ dest' = None
          /\ UNCHANGED renames
       \/ /\ dest' = staging[Get(temp[p])]
          /\ staging' = [staging EXCEPT ![Get(temp[p])] = None]
          /\ temp' = [temp EXCEPT ![p] = None]
          /\ renames' = Append(renames, p)
          /\ pc' = [pc EXCEPT ![p] = "done"]
          /\ ret' = [ret EXCEPT ![p] = "Ok"]
          /\ step' = [step EXCEPT ![p] = "ready"]
          /\ UNCHANGED buf
    /\ UNCHANGED <<clock, env_vars, min_age_arg, headers_arg, min_age, before,
                   now, mtime_before, copied, req, status, server_date,
                   times_set, dir>>

\* main.rs 200-209: the staging file is renamed onto the output, or the
\* rename fails and leaves the output as it is.
Persist(p) ==
    /\ pc[p] = "persist"
    /\ \/ /\ Return(p, "Err", "replacing")
          /\ UNCHANGED <<dest, renames>>
       \/ /\ dest' = staging[Get(temp[p])]
          /\ staging' = [staging EXCEPT ![Get(temp[p])] = None]
          /\ temp' = [temp EXCEPT ![p] = None]
          /\ renames' = Append(renames, p)
          /\ pc' = [pc EXCEPT ![p] = "done"]
          /\ ret' = [ret EXCEPT ![p] = "Ok"]
          /\ step' = [step EXCEPT ![p] = "ready"]
          /\ UNCHANGED buf
    /\ UNCHANGED <<clock, env_vars, min_age_arg, headers_arg, min_age, before,
                   now, mtime_before, copied, req, status, server_date,
                   times_set, dir>>

Next ==
    \/ Tick
    \/ \E p \in Procs : Start(p)
    \/ \E p \in Procs : ReadMetadata(p)
    \/ \E p \in Procs : FreshnessCheck(p)
    \/ \E p \in Procs : StageCreate(p)
    \/ \E p \in Procs : BuildRequest(p)
    \/ \E p \in Procs : Call(p)
    \/ \E p \in Procs : Copy(p)
    \/ \E p \in Procs : Flush(p)
    \/ \E p \in Procs : SetTimes(p)
    \/ \E p \in Procs : Persist(p)

\* One invocation.
Spec == Init /\ [][Next]_vars

\* Two invocations one after the other, without --min-age.
InitTwice ==
    InitWith(Procs, {None}, {<<>>, <<<<"If-Modified-Since", ":", " ", "1">>>>},
             {0, MaxClock + 1}, {<<"/", "foo", "bar">>}, BOOLEAN,
             ServersWith({200, 304, 404}), TRUE)

SpecTwice == InitTwice /\ [][Next]_vars

\* Two invocations at the same time, their steps interleaved.
InitConc ==
    InitWith(Procs, {None}, {<<>>}, {0}, {<<"/", "foo", "bar">>}, {TRUE},
             {s \in ServersWith({200, 304, 404}) :
                s.mtime = 0 /\ s.header # Some(<<"x">>)}, FALSE)

SpecConc == InitConc /\ [][Next]_vars

\* main.rs 22: the process's exit status, from how main ended.
exit_status(r) == IF r = "Ok" THEN 0 ELSE IF r = "Err" THEN 1 ELSE 101

\* ------------------------------------------------------------------ claims
Started(p) == pc[p] \notin {"off", "start"}
Done(p) == pc[p] = "done"
Failed(p) == Done(p) /\ exit_status(ret[p]) # 0
Succeeded(p) == Done(p) /\ exit_status(ret[p]) = 0
Renamed(p) == \E i \in 1..Len(renames) : renames[i] = p
StagingOf(p) == Get(staging[Get(temp[p])])
Whole(p) == dest # None /\ Get(dest).content = Body(p)

\* C1: during one invocation the output holds what it held before the
\* invocation (or is absent as it was) or the complete response body, and it
\* differs from before only once the invocation has renamed its staging file.
C1_DestUntouchedOrWhole ==
    \A p \in Procs : Started(p) =>
        /\ dest = before[p] \/ Whole(p)
        /\ dest # before[p] => Done(p) /\ step[p] = "ready" /\ Renamed(p)
        /\ ~Renamed(p) => dest = before[p]

C1_Witness ==
    /\ Done(1) /\ step[1] = "ready"
    /\ before[1] # None /\ dest # before[1] /\ Whole(1)

\* C2: an invocation that ends in a failure, at whatever step, leaves the
\* output's content and modification time as they were before it.
C2_FailureLeavesDest ==
    \A p \in Procs : Failed(p) => dest = before[p]

C2_Witness ==
    /\ Failed(1) /\ step[1] = "downloading" /\ copied[1] > 0 /\ copied[1] < BodyLen
    /\ before[1] # None /\ dest = before[1]

\* C3: when the freshness decision is Skip, or the server answers 304, the
\* invocation ends with success and without the rename: the output's content
\* and modification time are unchanged.
Skipped(p) ==
    /\ pc[p] \notin {"off", "start", "metadata", "fresh"}
    /\ freshness(mtime_before[p], min_age[p], now[p]) = "Skip"

C3_SkipAnd304LeaveDest ==
    \A p \in Procs : Skipped(p) \/ status[p] = Some(304) =>
        /\ Succeeded(p)
        /\ ~Renamed(p)
        /\ dest = before[p]

C3_Witness ==
    /\ status[1] = Some(304) /\ Succeeded(1)
    /\ before[1] # None /\ mtime_before[1] # None

\* C4: a staging file exists only while its invocation is between creating
\* it and renaming or discarding it; when an invocation has ended, however it
\* ended, none of its staging files is left in the directory.
Owned(n) ==
    \E p \in Procs :
        /\ temp[p] = Some(n)
        /\ pc[p] \in {"request", "call", "copy", "flush", "times", "persist"}

C4_NoStagingLeftBehind ==
    /\ \A n \in Names : staging[n] # None => Owned(n)
    /\ \A p \in Procs : Done(p) => temp[p] = None
    /\ (\A p \in Procs : pc[p] \in {"off", "done"}) =>
            \A n \in Names : staging[n] = None

C4_Witness ==
    /\ Failed(1) /\ step[1] = "replacing"
    /\ \A n \in Names : staging[n] = None

\* The server honours the conditional header: it has answered 304 to every
\* request whose If-Modified-Since is not earlier than the resource's
\* modification time.
Asked(p) == status[p] # None
Honoured ==
    \A p \in Procs :
        Asked(p) /\ ims_of(req[p]) # None /\ Get(ims_of(req[p])) >= resource_mtime
            => status[p] = Some(304)

NotModified(p) ==
    /\ Succeeded(p) /\ step[p] = "not-modified"
    /\ ~Renamed(p) /\ copied[p] = 0 /\ dest = before[p]

CallerSetsIms(p) == has_ims(apply_headers(<<>>, headers_arg[p]).hs)

\* The server does so exactly: 304 to those requests, 200 to the others.
Exact ==
    \A p \in Procs : Asked(p) =>
        status[p] = IF ims_of(req[p]) # None /\ Get(ims_of(req[p])) >= resource_mtime
                    THEN Some(304) ELSE Some(200)

\* C5 as claimed: of two invocations in succession without --min-age, against
\* an unchanged resource on a server that honours the conditional header,
\* the second ends in NotModified: no download, output untouched, exit
\* success.  (Read in the claim's favour: the first invocation succeeded,
\* the server answered the second, the platform can tell modification times,
\* the server answers 200 where it does not answer 304, and the second
\* invocation does not start at the very tick the output was written.)
C5_SecondRunNotModified ==
    (/\ Succeeded(1) /\ Done(2) /\ Asked(2)
     /\ min_age_arg[1] = None /\ min_age_arg[2] = None
     /\ ~CallerSetsIms(1) /\ ~CallerSetsIms(2)
     /\ modified_ok
     /\ before[2] # None /\ Get(before[2]).mtime # now[2]
     /\ Exact)
        => NotModified(2)

\* The whole second of a time.
WholeSecond(t) == (t \div TicksPerSec) * TicksPerSec

\* The output's modification time as the second invocation finds it is
\* readable, earlier than the time the invocation captures, and to the whole
\* second not earlier than the resource's modification time.
UsableMtime(p) ==
    /\ modified_ok
    /\ before[p] # None
    /\ Get(before[p]).mtime < now[p]
    /\ WholeSecond(Get(before[p]).mtime) >= resource_mtime

\* The first invocation downloaded, and stamped its download with the
\* server's Last-Modified, which is earlier than the time the second
\* invocation captures.
StampedEarlier ==
    /\ Renamed(1) /\ server_date[1] # None
    /\ before[2] # None /\ Get(before[2]).mtime = Get(server_date[1])
    /\ modified_ok
    /\ Get(server_date[1]) < now[2]

\* C5 as amended: the second invocation, the server having answered it, ends
\* in NotModified when the modification time the output has by then is
\* readable, earlier than the second invocation's current time and, to the
\* whole second, not earlier than the resource's; this is so in particular
\* after a first invocation that stamped its download with a Last-Modified
\* earlier than the second invocation's current time.
C5_SecondRunNotModifiedIfMtimeUsable ==
    (/\ Done(1) /\ Done(2) /\ Asked(2)
     /\ min_age_arg[2] = None
     /\ ~CallerSetsIms(2)
     /\ Honoured)
        => /\ UsableMtime(2) => NotModified(2)
           /\ StampedEarlier => NotModified(2)

C5_Witness ==
    /\ Done(1) /\ Done(2) /\ Asked(2) /\ Honoured
    /\ ~CallerSetsIms(2)
    /\ StampedEarlier /\ UsableMtime(2)
    /\ before[1] = None
    /\ NotModified(2)

\* The decision is made once the invocation is past the freshness check.
Decided(p) == pc[p] \notin {"off", "start", "metadata", "fresh"}
SkipTaken(p) == Done(p) /\ step[p] = "fresh" /\ ret[p] = "Ok"
Proceeded(p) == Decided(p) /\ step[p] # "fresh"
Fresh(p) ==
    /\ mtime_before[p] # None
    /\ min_age[p] # None
    /\ now[p] - Get(min_age[p]) * TicksPerSec < Get(mtime_before[p])

\* C6: the freshness decision is Skip exactly when ReferenceTime is present,
\* a min-age is configured and now - min-age < ReferenceTime; in every other
\* case it is Proceed.
C6_SkipExactlyWhenFresh ==
    \A p \in Procs : Decided(p) =>
        /\ SkipTaken(p) <=> Fresh(p)
        /\ Proceeded(p) <=> ~Fresh(p)

\* C7: an invocation given a --header value without a colon exits with a
\* failure status, whatever the output's state and the min-age.
NoColon(p) ==
    \E i \in 1..Len(headers_arg[p]) : find_colon(headers_arg[p][i]) = 0

C7_HeaderWithoutColonFails ==
    \A p \in Procs : Done(p) /\ NoColon(p) => exit_status(ret[p]) # 0

\* C8: the process exits with success exactly when the invocation ended in
\* freshness Skip, in a 304 response, or in the rename of the wholly
\* downloaded content onto the output; every other end is a failure status.
C8_SuccessIffThreeOutcomes ==
    \A p \in Procs : Done(p) =>
        (exit_status(ret[p]) = 0 <=>
            \/ Skipped(p)
            \/ status[p] = Some(304)
            \/ Renamed(p) /\ Whole(p))

C8_Witness ==
    /\ Done(1) /\ exit_status(ret[1]) = 0
    /\ Renamed(1) /\ Whole(1) /\ status[1] = Some(200)

\* C9: of a response that came without a transport error, 200 to 299 leads
\* to the download, 304 to NotModified with no body read, every other code of
\* 300 to 399 to an error, 400 to 599 to an error, and every other code to an
\* error: each code goes exactly one way.
Downloading(p) ==
    \/ pc[p] \in {"copy", "flush", "times", "persist"}
    \/ Done(p) /\ step[p] \in {"downloading", "completing download",
                               "replacing", "ready"}
ErrorAt(p, s) == Failed(p) /\ step[p] = s /\ copied[p] = 0 /\ ~Renamed(p)

C9_StatusClassification ==
    \A p \in Procs : \A code \in status[p] :
        /\ (code >= 200 /\ code <= 299) <=> Downloading(p)
        /\ code = 304 <=> NotModified(p)
        /\ (code >= 300 /\ code <= 399 /\ code # 304) <=> ErrorAt(p, "redirection")
        /\ (code >= 400 /\ code <= 599) <=> ErrorAt(p, "unhappy")
        /\ (code < 200 \/ code > 599) <=> ErrorAt(p, "unexpected")

C9_Witness ==
    /\ status[1] = Some(299) /\ Done(1) /\ Renamed(1) /\ Whole(1)

\* C10: of two invocations at the same time on one output, under every
\* interleaving: the output holds, at every moment, what it held at first or
\* the complete body of the invocation that renamed last, never a partial or
\* mixed body; each invocation writes into a staging file of its own only;
\* and when both have ended the output holds the body of the last to rename.
IsPrefix(s, t) == Len(s) <= Len(t) /\ s = SubSeq(t, 1, Len(s))

C10_LastWriterWins ==
    /\ renames = <<>> => \A p \in Procs : Started(p) => dest = before[p]
    /\ renames # <<>> => Whole(renames[Len(renames)])
    /\ \A p \in Procs, q \in Procs :
            p # q /\ temp[p] # None => temp[p] # temp[q]
    /\ \A p \in Procs : temp[p] # None =>
            /\ staging[Get(temp[p])] # None
            /\ IsPrefix(StagingOf(p).content \o buf[p], Body(p))
    /\ (\A p \in Procs : Done(p)) =>
            \A p \in Procs : Renamed(p) /\ ~Whole(p) =>
                \E i \in 1..Len(renames), j \in 1..Len(renames) :
                    i < j /\ renames[i] = p /\ renames[j] # p

C10_Witness ==
    /\ \A p \in Procs : Done(p)
    /\ renames = <<2, 1>>
    /\ Whole(1)
    /\ before[1] # None /\ before[2] # None

\* C11: after an invocation commits a download whose response carried a
\* well-formed Last-Modified and whose time-setting step succeeded, the
\* output's modification time is that server-reported time, not the time of
\* the download; when the header is absent or malformed the invocation never
\* attempts the step, raises no error for it, and its commit is the whole
\* download with success.
IoSteps == {"downloading", "completing download", "replacing", "ready"}

C11_ServerTimeKept ==
    \A p \in Procs :
        /\ Done(p) /\ Renamed(p) /\ times_set[p] = "ok" =>
            /\ server_date[p] = parse_from_rfc2822(Get(last_modified))
            /\ dest # None
            /\ Get(dest).mtime = Get(server_date[p])
            /\ Get(dest).mtime = resource_mtime
        /\ (\E code \in status[p] : classify(code) = "download")
           /\ server_modified(last_modified) = None =>
            /\ pc[p] # "times" /\ times_set[p] = "no"
            /\ Done(p) => step[p] \in IoSteps
            /\ Done(p) /\ step[p] = "ready" =>
                    Succeeded(p) /\ Renamed(p) /\ Whole(p)

\* The server's time (0) is kept though the download was written later.
C11_Witness ==
    /\ Done(1) /\ Renamed(1) /\ times_set[1] = "ok"
    /\ Get(dest).mtime = Get(server_date[1])
    /\ Get(dest).mtime < now[1]

\* ------------------------------------------------- parse_duration alone
\* The texts --min-age is given: every text of up to MaxText characters.
Chars == {Digits[i] : i \in 1..10} \cup {"-", "+", "x", " "}
Texts == UNION {[1..n -> Chars] : n \in 0..MaxText}

\* main.rs 62-67 with period.rs 27-33: one invocation, stopped once its
\* --min-age is parsed.
InitPeriod ==
    InitWith({1}, {None} \cup {Some(s) : s \in Texts}, {<<>>}, {0}, {<<"/", "foo", "bar">>},
             {TRUE}, {s \in ServersWith({200}) : s.mtime = 0 /\ s.header = None},
             TRUE)

NextPeriod == \E p \in Procs : Start(p)

SpecPeriod == InitPeriod /\ [][NextPeriod]_vars

\* The decimal text of a natural number.
RECURSIVE DecimalText(_)
DecimalText(n) ==
    IF n < 10 THEN <<Digits[n + 1]>>
    ELSE Append(DecimalText(n \div 10), Digits[(n % 10) + 1])

\* A text that reads as an integer: an optional sign, then digits only.
Numeric(s) ==
    LET digits == IF s # <<>> /\ s[1] \in {"-", "+"} THEN Tail(s) ELSE s
    IN  digits # <<>> /\ \A i \in 1..Len(digits) : IsDigit(digits[i])

Parsed(p) == pc[p] \notin {"off", "start"}

\* C12: parse_duration fails for every non-numeric text and, for every
\* non-negative integer n, turns the decimal text of n into a duration of
\* exactly n seconds, at and beyond the limits of the integer and duration
\* types too.
C12_ParseDuration ==
    \A p \in Procs : Parsed(p) /\ min_age_arg[p] # None =>
        LET s == Get(min_age_arg[p])
        IN  /\ ~Numeric(s) => ret[p] = "Err" /\ step[p] = "min-age"
            /\ \A n \in 0..(I64Lim + 1) : s = DecimalText(n) =>
                    ret[p] = "Running" /\ min_age[p] = Some(n)

\* What holds of C12: the same, for the n that Duration::seconds accepts.
C12_ParseDurationWithinDuration ==
    \A p \in Procs : Parsed(p) /\ min_age_arg[p] # None =>
        LET s == Get(min_age_arg[p])
        IN  /\ ~Numeric(s) => ret[p] = "Err" /\ step[p] = "min-age"
            /\ \A n \in 0..DurationLim : s = DecimalText(n) =>
                    ret[p] = "Running" /\ min_age[p] = Some(n)

\* --------------------------------------------------------- dir_of alone
\* The output paths: up to MaxPath components, the root first if at all.
Comps == {"..", "foo", "bar"}
Paths ==
    UNION {[1..n -> Comps] : n \in 0..MaxPath}
    \cup UNION {{<<"/">> \o t : t \in [1..n -> Comps]} : n \in 0..(MaxPath - 1)}

\* main.rs 102-106 with dir_of.rs 8-22: one invocation with no --min-age and
\* no headers, stopped once the directory of its output is resolved and the
\* staging file asked for.
InitDirOf ==
    InitWith({1}, {None}, {<<>>}, {0}, Paths, {TRUE},
             {s \in ServersWith({200}) : s.mtime = 0 /\ s.header = None}, TRUE)

NextDirOf ==
    \/ \E p \in Procs : Start(p)
    \/ \E p \in Procs : ReadMetadata(p)
    \/ \E p \in Procs : FreshnessCheck(p)
    \/ \E p \in Procs : StageCreate(p)

SpecDirOf == InitDirOf /\ [][NextDirOf]_vars

Resolved(p) == dir[p] # None
DirOf(p) == Get(dir[p]).result
CurrentDir(p) == Get(dir[p]).current_dir
AllButLast(path) == SubSeq(path, 1, Len(path) - 1)

\* C13 as stated: dir_of("bar") with the current directory /home/quux yields
\* /home/quux/bar.
C13_BareNameYieldsCwdAndName ==
    \A p \in Procs :
        Resolved(p) /\ output = <<"bar">> /\ CurrentDir(p) = Some(Some(Cwd)) =>
            DirOf(p).kind = "Ok" /\ DirOf(p).dir = Cwd \o <<"bar">>

\* C13, amended: dir_of("bar") with the current directory /home/quux yields
\* /home/quux, the directory the file bar is in.
C13_BareNameYieldsCwd ==
    \A p \in Procs :
        Resolved(p) /\ output = <<"bar">> /\ CurrentDir(p) = Some(Some(Cwd)) =>
            DirOf(p).kind = "Ok" /\ DirOf(p).dir = <<"/", "home", "quux">>

C13_Witness ==
    /\ Resolved(1) /\ output = <<"bar">> /\ CurrentDir(1) = Some(Some(Cwd))
    /\ DirOf(1).dir = <<"/", "home", "quux">>

\* C14: dir_of yields the root when the path has no parent; the parent as it
\* is, without looking the current directory up, when the parent is
\* absolute; otherwise the current directory with the relative parent's
\* components appended as they are, ".." included (a bare name yields the
\* current directory, ../foo/bar yields cwd/../foo).  It fails exactly when
\* the lookup of the current directory, which it then made, failed.
C14_DirOf ==
    \A p \in Procs : Resolved(p) =>
        /\ output \in {<<>>, <<"/">>} =>
                DirOf(p).kind = "Ok" /\ DirOf(p).dir = <<"/">>
                /\ CurrentDir(p) = None
        /\ Len(output) >= 2 /\ output[1] = "/" =>
                DirOf(p).kind = "Ok" /\ DirOf(p).dir = AllButLast(output)
                /\ CurrentDir(p) = None
        /\ output # <<>> /\ output[1] # "/" =>
                /\ CurrentDir(p) # None
                /\ CurrentDir(p) = Some(Some(Cwd)) =>
                    /\ DirOf(p).kind = "Ok"
                    /\ DirOf(p).dir = Cwd \o AllButLast(output)
                    /\ Len(output) = 1 => DirOf(p).dir = Cwd
                    /\ output = <<"..", "foo", "bar">> =>
                            DirOf(p).dir = <<"/", "home", "quux", "..", "foo">>
        /\ DirOf(p).kind = "Err" <=> CurrentDir(p) = Some(None)
        /\ DirOf(p).kind = "Err" => pc[p] = "done" /\ ret[p] = "Err" /\ step[p] = "cwd"

C14_Witness ==
    /\ Resolved(1) /\ output = <<"..", "foo", "bar">>
    /\ DirOf(1).kind = "Ok"
    /\ DirOf(1).dir = <<"/", "home", "quux", "..", "foo">>

\* ------------------------------------------------------------------
\* The request of p was issued: req.call() ran (main.rs 146).
Issued(p) ==
    \/ pc[p] \in {"copy", "flush", "times", "persist"}
    \/ Done(p) /\ step[p] \notin {"none", "min-age", "metadata", "fresh", "cwd",
                                  "tempfile", "header"}

StagingExists(p) == temp[p] # None /\ staging[Get(temp[p])] # None

\* C15: a request is issued only when the freshness decision was Proceed, the
\* staging file exists and every caller header was parsed; an invocation that
\* ended with Skip or with a failure of the working-directory lookup, of the
\* staging file's creation or of a header's parsing has issued no request
\* and never issues one; and on Skip no staging file was ever created.
C15_RequestStep(p) ==
    /\ ~Issued(p) /\ Issued(p)' =>
        /\ freshness(mtime_before[p], min_age[p], now[p]) = "Proceed"
        /\ ~Fresh(p)
        /\ Resolved(p) /\ DirOf(p).kind = "Ok"
        /\ StagingExists(p)
        /\ ~NoColon(p)
        /\ req[p] = apply_headers(conditional(mtime_before[p]), headers_arg[p]).hs
    /\ Done(p) /\ step[p] \in {"fresh", "cwd", "tempfile", "header"} =>
        /\ ~Issued(p) /\ ~Issued(p)'
        /\ status[p] = None /\ status'[p] = None
    /\ Skipped(p) \/ Skipped(p)' =>
        /\ temp[p] = None /\ temp'[p] = None
        /\ dir[p] = None /\ dir'[p] = None
        /\ \A n \in Names : staging[n] = None /\ staging'[n] = None
    /\ ~StagingExists(p) /\ StagingExists(p)' =>
        freshness(mtime_before[p], min_age[p], now[p]) = "Proceed"

C15_RequestAfterStaging == [][\A p \in Procs : C15_RequestStep(p)]_vars

\* A request issued with a min-age, a ReferenceTime and caller headers.
C15_Witness ==
    /\ Issued(1) /\ status[1] # None
    /\ min_age[1] # None /\ mtime_before[1] # None /\ headers_arg[1] # <<>>

\* The whole body is in the staging file of p and nothing is left buffered.
Flushed(p) ==
    /\ StagingExists(p) /\ StagingOf(p).content = Body(p)
    /\ buf[p] = <<>> /\ copied[p] = BodyLen

\* C16: on the download path the body is copied whole, then the writer is
\* flushed, then the time is set if the server gave one, then the rename is
\* made: the time is set and the rename attempted only with the whole body
\* flushed to the staging file, and an invocation that fails in the copy or
\* in the flush has set no time and made no rename.
C16_DownloadStep(p) ==
    /\ copied'[p] # copied[p] =>
        pc[p] = "copy" /\ pc'[p] = "copy" /\ times_set[p] = "no" /\ ~Renamed(p)
    /\ pc'[p] = "flush" /\ pc[p] # "flush" =>
        pc[p] = "copy" /\ copied[p] = BodyLen
    /\ pc'[p] \in {"times", "persist"} /\ pc[p] \notin {"times", "persist"} =>
        pc[p] = "flush" /\ Flushed(p)'
    /\ pc'[p] = "times" => server_date[p] # None /\ pc[p] \in {"flush", "times"}
    /\ times_set'[p] # times_set[p] =>
        /\ pc[p] = "times" /\ pc'[p] = "persist"
        /\ Flushed(p) /\ ~Renamed(p) /\ times_set[p] = "no"
    /\ (pc[p] = "persist" /\ pc'[p] # "persist") \/ (~Renamed(p) /\ Renamed(p)') =>
        /\ pc[p] = "persist" /\ Flushed(p)
        /\ server_date[p] # None <=> times_set[p] # "no"
    /\ Done(p)' /\ step'[p] \in {"downloading", "completing download"} =>
        /\ times_set'[p] = "no" /\ ~Renamed(p)'
        /\ pc[p] \in {"copy", "flush", "done"}

C16_DownloadOrder == [][\A p \in Procs : C16_DownloadStep(p)]_vars

\* A download that went through all four steps.
C16_Witness ==
    /\ Done(1) /\ Renamed(1) /\ times_set[1] = "ok" /\ copied[1] = BodyLen
    /\ Whole(1)

\* The failures main meets and goes on from.
\* main.rs 85: the output exists and its modification time cannot be told.
MtimeUnreadable(p) ==
    /\ pc[p] \notin {"off", "start", "metadata"} /\ step[p] # "metadata"
    /\ before[p] # None /\ ~modified_ok
\* main.rs 166-168: the response's Last-Modified is no date.
DateMalformed(p) ==
    /\ \E code \in status[p] : classify(code) = "download"
    /\ last_modified # None /\ parse_from_rfc2822(Get(last_modified)) = None
\* main.rs 190-197: the staging file's time could not be set.
TimesFailed(p) == times_set[p] = "failed"

FatalSteps == {"min-age", "metadata", "fresh", "cwd", "tempfile", "header",
               "requesting", "redirection", "unhappy", "unexpected",
               "downloading", "completing download", "replacing"}

RenameAttempted(p) ==
    pc[p] = "persist" \/ (Done(p) /\ step[p] \in {"replacing", "ready"})

\* C17 as stated: the failure to set the staging file's time is the only
\* failure that does not end the invocation; after it the rename is still
\* attempted and, if it succeeds, the output holds the whole download and
\* the exit is a success.
C17_OnlyTimesFailureGoesOn ==
    \A p \in Procs :
        /\ MtimeUnreadable(p) \/ DateMalformed(p) => Failed(p)
        /\ TimesFailed(p) => RenameAttempted(p)
        /\ TimesFailed(p) /\ Renamed(p) => Whole(p) /\ Succeeded(p)

\* C17, amended: the failure to set the staging file's time does not end the
\* invocation: the rename is still attempted and, if it succeeds, the output
\* holds the whole download and the exit is a success.  Two more failures
\* are passed over: an output whose modification time cannot be told counts
\* as having no ReferenceTime, and a Last-Modified that is no date counts as
\* absent.  Every failure that ends the invocation ends it at once, with a
\* failure status.
C17_TimesFailureGoesOn ==
    \A p \in Procs :
        /\ TimesFailed(p) => RenameAttempted(p)
        /\ TimesFailed(p) /\ Renamed(p) =>
                Whole(p) /\ Succeeded(p) /\ step[p] = "ready"
        /\ TimesFailed(p) /\ Done(p) /\ ~Renamed(p) =>
                Failed(p) /\ step[p] = "replacing" /\ dest = before[p]
        /\ MtimeUnreadable(p) => mtime_before[p] = None /\ step[p] # "metadata"
        /\ DateMalformed(p) => server_date[p] = None /\ times_set[p] = "no"
        /\ ret[p] # "Running" <=> Done(p)
        /\ Failed(p) => step[p] \in FatalSteps
        /\ Done(p) /\ step[p] \in FatalSteps \ {"fresh"} => Failed(p)
        /\ Failed(p) => temp[p] = None /\ ~Renamed(p)

\* The time could not be set, and the download is committed whole all the
\* same.
C17_Witness ==
    /\ TimesFailed(1) /\ Renamed(1) /\ Succeeded(1) /\ Whole(1)
    /\ Get(dest).mtime # Get(server_date[1])

\* The metadata of the output was read and the time captured.
MetadataRead(p) ==
    pc[p] \notin {"off", "start", "metadata"} /\ step[p] \notin {"min-age", "metadata"}
\* The request was built.
Built(p) == pc[p] = "call" \/ Issued(p)

\* C18: ReferenceTime is present exactly when the output exists, its
\* modification time can be told and that time is not later than the
\* captured current time; with the output missing or its time not to be told
\* the invocation goes on without a ReferenceTime; and the request carries
\* If-Modified-Since exactly when ReferenceTime is present.
C18_ReferenceTime ==
    \A p \in Procs :
        /\ MetadataRead(p) =>
            (mtime_before[p] # None <=>
                before[p] # None /\ modified_ok /\ Get(before[p]).mtime <= now[p])
        /\ Built(p) => (has_ims(req[p]) <=> mtime_before[p] # None)

\* C18 without its two failing cases (a time equal to the captured time, a
\* caller's own If-Modified-Since): what the code does.
C18_ReferenceTimeStrictlyPast ==
    \A p \in Procs :
        /\ MetadataRead(p) =>
            (mtime_before[p] # None <=>
                before[p] # None /\ modified_ok /\ Get(before[p]).mtime < now[p])
        /\ Built(p) /\ ~CallerSetsIms(p) =>
            (has_ims(req[p]) <=> mtime_before[p] # None)

\* The min-age given is an integer not above zero.
MinAgeNotPositive(p) == min_age[p] # None /\ Get(min_age[p]) <= 0

\* C19: with a min-age of zero or less the decision is never Skip, whatever
\* the output's modification time: the invocation always goes on from the
\* freshness check towards the request.
C19_NoSkipWithoutMinAge ==
    \A p \in Procs : MinAgeNotPositive(p) /\ Decided(p) =>
        /\ ~SkipTaken(p)
        /\ step[p] # "fresh"

\* What holds of C19: the decision is never Skip.
C19_NeverSkip ==
    \A p \in Procs : MinAgeNotPositive(p) /\ Decided(p) =>
        /\ ~SkipTaken(p)
        /\ step[p] = "fresh" => ret[p] = "Panic"

\* The server answers 304 only to a request that carries If-Modified-Since.
NotModifiedOnlyIfAsked(p) ==
    \A code \in status[p] : classify(code) = "not-modified" => has_ims(req[p])

\* C20: if the server answers 304 only to requests that carry
\* If-Modified-Since, then after every invocation that ends in success the
\* output exists, whatever the output was at the start and whatever headers
\* the caller gave.
C20_SuccessLeavesOutput ==
    \A p \in Procs : NotModifiedOnlyIfAsked(p) /\ Succeeded(p) => dest # None

\* What holds of C20: the same, when the caller gives no If-Modified-Since.
C20_SuccessLeavesOutputUnlessCallerAsks ==
    \A p \in Procs :
        NotModifiedOnlyIfAsked(p) /\ Succeeded(p) /\ ~CallerSetsIms(p) => dest # None

====
